---- MODULE Spec2Model ----
(***************************************************************************)
(* Boolean retrieval over a manual inverted index                          *)
(* (src/retrieval/searcher.py, src/preprocessing/preprocessor.py).         *)
(*                                                                         *)
(* A Python string is modelled as a sequence of items.  An item is either  *)
(* the single space character SP or a maximal run of non-space characters  *)
(* (a "word").  No two words are adjacent in a string, so a substring      *)
(* search for " and ", " or ", " not " or " and not " over the characters  *)
(* is exactly a search for the corresponding item sequence, and str.split  *)
(* on those separators is exactly a split of the item sequence.            *)
(***************************************************************************)
EXTENDS Integers, Sequences, FiniteSets, TLC

VARIABLES engine, inverted_index, documents, pc, query, max_results, form,
          results, raised, escaped, term_out, verification, explanation,
          jsonl_file, created

vars == <<engine, inverted_index, documents, pc, query, max_results, form,
          results, raised, escaped, term_out, verification, explanation,
          jsonl_file, created>>

SP == " "

Range(s) == {s[i] : i \in DOMAIN s}

(***************************************************************************)
(* Character-level conversions, given as what they do to each word of the  *)
(* bounded vocabulary.                                                     *)
(***************************************************************************)

\* str.lower() on one word
LowerWord(w) ==
  CASE w = "AND"   -> "and"
    [] w = "OR"    -> "or"
    [] w = "NOT"   -> "not"
    [] w = "Cats!" -> "cats!"
    [] OTHER       -> w

\* str.upper() on one word (used to build case variants of a query)
UpperWord(w) ==
  CASE w = "and"   -> "AND"
    [] w = "or"    -> "OR"
    [] w = "not"   -> "NOT"
    [] OTHER       -> w

\* str.translate(str.maketrans('', '', string.punctuation)) on one word
RemovePunctWord(w) ==
  CASE w = "cats!" -> "cats"
    [] w = "Cats!" -> "Cats"
    [] w = "!"     -> ""
    [] OTHER       -> w

\* nltk stopwords.words('english'), restricted to the vocabulary
stop_words == {"the", "and", "or", "not"}

\* PorterStemmer.stem on one word of the vocabulary
StemWord(w) ==
  CASE w = "cats" -> "cat"
    [] w = "dogs" -> "dog"
    [] w = "lazy" -> "lazi"
    [] OTHER      -> w

\* str.lower()
to_lowercase(s) == [i \in DOMAIN s |-> LowerWord(s[i])]

ToUpper(s) == [i \in DOMAIN s |-> UpperWord(s[i])]

\* remove_punctuation
remove_punctuation(s) == [i \in DOMAIN s |-> RemovePunctWord(s[i])]

RECURSIVE LStrip(_)
LStrip(s) == IF s # <<>> /\ Head(s) = SP THEN LStrip(Tail(s)) ELSE s

RECURSIVE RStrip(_)
RStrip(s) ==
  IF s # <<>> /\ s[Len(s)] = SP THEN RStrip(SubSeq(s, 1, Len(s) - 1)) ELSE s

\* str.strip()
Strip(s) == RStrip(LStrip(s))

\* pat in s
Contains(pat, s) ==
  \E i \in 1..(Len(s) - Len(pat) + 1) : SubSeq(s, i, i + Len(pat) - 1) = pat

\* index of the leftmost occurrence of pat in s (0 when there is none)
Find(pat, s) ==
  IF Contains(pat, s)
  THEN CHOOSE i \in 1..(Len(s) - Len(pat) + 1) :
         /\ SubSeq(s, i, i + Len(pat) - 1) = pat
         /\ \A j \in 1..(i - 1) : SubSeq(s, j, j + Len(pat) - 1) # pat
  ELSE 0

\* s.split(pat): leftmost, non-overlapping occurrences
RECURSIVE Split(_, _)
Split(s, pat) ==
  LET i == Find(pat, s) IN
  IF i = 0 THEN <<s>>
  ELSE <<SubSeq(s, 1, i - 1)>> \o Split(SubSeq(s, i + Len(pat), Len(s)), pat)

\* text.split(): the words of a string (whitespace runs separate, empty
\* strings are dropped)
SplitWords(s) == SelectSeq(s, LAMBDA w : w # SP /\ w # "")

\* remove_stopwords
remove_stopwords(words) ==
  SelectSeq(words, LAMBDA w : LowerWord(w) \notin stop_words)

\* stem_words
stem_words(words) == [i \in DOMAIN words |-> StemWord(words[i])]

\* preprocess_manual, up to the list of words that it joins
preprocess_manual(text) ==
  stem_words(remove_stopwords(SplitWords(remove_punctuation(to_lowercase(text)))))


(***************************************************************************)
(* Values a call returns: a value, or an exception raised to the caller.   *)
(***************************************************************************)
Ok(v) == [exc |-> FALSE, val |-> v]

Raise == [exc |-> TRUE, val |-> {}]

\* preprocess_text as a method that returns the token list of preprocess_manual
preprocess_text_tokens(term) == Ok(preprocess_manual(term))

\* self.preprocessor.preprocess_text(term): DocumentPreprocessor defines no
\* attribute preprocess_text, so the attribute lookup raises AttributeError
\* before anything is called
preprocess_text(term) == Raise

\* sorted(): document ids compare as Python strings ("d10" < "d2")
Rank(d) ==
  CASE d = "d1"  -> 1
    [] d = "d10" -> 2
    [] d = "d2"  -> 3
    [] d = "d3"  -> 4

RECURSIVE Sorted(_)
Sorted(S) ==
  IF S = {} THEN <<>>
  ELSE LET m == CHOOSE x \in S : \A y \in S : Rank(x) <= Rank(y)
       IN  <<m>> \o Sorted(S \ {m})

Min(a, b) == IF a <= b THEN a ELSE b

Max(a, b) == IF a >= b THEN a ELSE b

\* lst[:n], with Python's meaning of a negative n
SliceTo(lst, n) ==
  IF n >= 0 THEN SubSeq(lst, 1, Min(n, Len(lst)))
  ELSE SubSeq(lst, 1, Max(Len(lst) + n, 0))

(***************************************************************************)
(* BooleanRetrieval.build_inverted_index over the engine's documents.  An  *)
(* engine document is [id, status, contents, vector].  Its status says how *)
(* the reads of the loop body end: "ok"; "nocontents" (doc.contents() is   *)
(* None); "novector" (get_document_vector returns None); "vecraise"        *)
(* (get_document_vector raises); "none" (doc() returns None); "raise" (the *)
(* read of the document raises).                                           *)
(***************************************************************************)

\* the posting insertion with an assignment in place of set.add
AddTerms_overwrite(index, id, terms) ==
  [t \in (DOMAIN index) \cup terms |-> IF t \in terms THEN {id} ELSE index[t]]

AddTerms(index, id, terms) ==
  [t \in (DOMAIN index) \cup terms |->
     IF t \in terms
     THEN (IF t \in DOMAIN index THEN index[t] ELSE {}) \cup {id}
     ELSE index[t]]

Put(store, id, content) ==
  [d \in (DOMAIN store) \cup {id} |-> IF d = id THEN content ELSE store[d]]

EmptyMap == [x \in {} |-> {}]

\* the build with a break in place of going on after a read that raises
RECURSIVE build_stops_at_failure(_, _, _, _)
build_stops_at_failure(eng, internal_docid, index, store) ==
  IF internal_docid > Len(eng) THEN [inverted_index |-> index, documents |-> store]
  ELSE LET doc == eng[internal_docid] IN
       CASE doc.status = "ok" ->
              build_stops_at_failure(eng, internal_docid + 1,
                                     AddTerms(index, doc.id, doc.vector),
                                     Put(store, doc.id, doc.contents))
         [] doc.status = "nocontents" ->
              build_stops_at_failure(eng, internal_docid + 1,
                                     AddTerms(index, doc.id, doc.vector),
                                     Put(store, doc.id, <<>>))
         [] doc.status \in {"novector", "vecraise"} ->
              build_stops_at_failure(eng, internal_docid + 1, index,
                                     Put(store, doc.id, doc.contents))
         [] doc.status = "none" ->
              build_stops_at_failure(eng, internal_docid + 1, index,
                                     Put(store, doc.id, <<>>))
         [] OTHER -> [inverted_index |-> index, documents |-> store]

RECURSIVE build_inverted_index(_, _, _, _)
build_inverted_index(eng, internal_docid, index, store) ==
  IF internal_docid > Len(eng) THEN [inverted_index |-> index, documents |-> store]
  ELSE LET doc == eng[internal_docid] IN
       CASE doc.status = "ok" ->
              build_inverted_index(eng, internal_docid + 1,
                                   AddTerms(index, doc.id, doc.vector),
                                   Put(store, doc.id, doc.contents))
         [] doc.status = "nocontents" ->
              build_inverted_index(eng, internal_docid + 1,
                                   AddTerms(index, doc.id, doc.vector),
                                   Put(store, doc.id, <<>>))
         [] doc.status \in {"novector", "vecraise"} ->
              build_inverted_index(eng, internal_docid + 1, index,
                                   Put(store, doc.id, doc.contents))
         [] doc.status = "none" ->
              build_inverted_index(eng, internal_docid + 1, index,
                                   Put(store, doc.id, <<>>))
         [] OTHER ->
              build_inverted_index(eng, internal_docid + 1, index, store)

(***************************************************************************)
(* Query evaluation                                                        *)
(***************************************************************************)
AND_NOT_SEP == <<SP, "and", SP, "not", SP>>

AND_SEP == <<SP, "and", SP>>

OR_SEP == <<SP, "or", SP>>

NOT_SEP == <<SP, "not", SP>>

\* _get_documents_for_term
get_documents_for_term(term) ==
  LET t == to_lowercase(Strip(term))
      processed_term == preprocess_text(t)
  IN  IF processed_term.exc THEN Raise
      ELSE Ok(UNION {inverted_index[token] :
                       token \in Range(processed_term.val) \cap DOMAIN inverted_index})

StripAll(parts) == [i \in DOMAIN parts |-> Strip(parts[i])]

\* the loop of _handle_and over terms[1:]
RECURSIVE AndLoop(_, _, _)
AndLoop(result_set, terms, i) ==
  IF i > Len(terms) THEN Ok(result_set)
  ELSE LET term_docs == get_documents_for_term(terms[i]) IN
       IF term_docs.exc THEN Raise
       ELSE AndLoop(result_set \cap term_docs.val, terms, i + 1)

\* the documents of a term group, resolved with the tokens of preprocess_manual
DocsOfTokens(term) ==
  UNION {inverted_index[token] :
           token \in Range(preprocess_manual(Strip(term))) \cap DOMAIN inverted_index}

\* _handle_and that resolves its first term only and skips the loop
handle_and_first_term(q) == Ok(DocsOfTokens(Split(q, AND_SEP)[1]))

\* _handle_and
handle_and(q) ==
  LET terms == StripAll(Split(q, AND_SEP))
      first == get_documents_for_term(terms[1])
  IN  IF first.exc THEN Raise ELSE AndLoop(first.val, terms, 2)

\* the loop of _handle_or
RECURSIVE OrLoop(_, _, _)
OrLoop(result_set, terms, i) ==
  IF i > Len(terms) THEN Ok(result_set)
  ELSE LET term_docs == get_documents_for_term(terms[i]) IN
       IF term_docs.exc THEN Raise
       ELSE OrLoop(result_set \cup term_docs.val, terms, i + 1)

\* _handle_or
handle_or(q) == OrLoop({}, StripAll(Split(q, OR_SEP)), 1)

\* positive_docs - negative_docs, each side evaluated in the code's order
Minus(positive_docs, negative_term) ==
  IF positive_docs.exc THEN Raise
  ELSE LET negative_docs == get_documents_for_term(negative_term) IN
       IF negative_docs.exc THEN Raise
       ELSE Ok(positive_docs.val \ negative_docs.val)

\* _handle_not
handle_not(q) ==
  LET parts == Split(q, NOT_SEP) IN
  IF Len(parts) # 2 THEN Ok({})
  ELSE Minus(get_documents_for_term(Strip(parts[1])), Strip(parts[2]))

\* _handle_and_not that returns positive_docs without the subtraction
handle_and_not_keeps_excluded(q) == Ok(DocsOfTokens(Split(q, AND_NOT_SEP)[1]))

\* _handle_and_not
handle_and_not(q) ==
  LET parts == Split(q, AND_NOT_SEP) IN
  IF Len(parts) # 2 THEN Ok({})
  ELSE LET left_part == Strip(parts[1]) IN
       Minus(IF Contains(AND_SEP, left_part)
             THEN handle_and(left_part)
             ELSE get_documents_for_term(left_part),
             Strip(parts[2]))

\* _parse_boolean_query with the " or " test moved before the " and " test
parse_boolean_query_or_first(q0) ==
  LET q == Strip(to_lowercase(q0)) IN
  IF Contains(AND_NOT_SEP, q) THEN [form |-> "and_not", out |-> handle_and_not(q)]
  ELSE IF Contains(OR_SEP, q) THEN [form |-> "or", out |-> handle_or(q)]
  ELSE IF Contains(AND_SEP, q) THEN [form |-> "and", out |-> handle_and(q)]
  ELSE IF Contains(NOT_SEP, q) THEN [form |-> "not", out |-> handle_not(q)]
  ELSE [form |-> "term", out |-> get_documents_for_term(q)]

\* _parse_boolean_query: the branch taken and what it returns
parse_boolean_query(q0) ==
  LET q == Strip(to_lowercase(q0)) IN
  IF Contains(AND_NOT_SEP, q) THEN [form |-> "and_not", out |-> handle_and_not(q)]
  ELSE IF Contains(AND_SEP, q) THEN [form |-> "and", out |-> handle_and(q)]
  ELSE IF Contains(OR_SEP, q) THEN [form |-> "or", out |-> handle_or(q)]
  ELSE IF Contains(NOT_SEP, q) THEN [form |-> "not", out |-> handle_not(q)]
  ELSE [form |-> "term", out |-> get_documents_for_term(q)]

\* the try block of search_boolean
search_try(q0, m) ==
  LET q == Strip(q0) IN
  IF q = <<>> THEN [form |-> "none", out |-> Ok(<<>>)]
  ELSE LET p == parse_boolean_query(q) IN
       IF p.out.exc THEN [form |-> p.form, out |-> Raise]
       ELSE [form |-> p.form, out |-> Ok(SliceTo(Sorted(p.out.val), m))]

\* search_boolean without its except clause
search_boolean_unhandled(q0, m) ==
  LET t == search_try(q0, m) IN
  IF t.out.exc
  THEN [form |-> t.form, results |-> <<>>, raised |-> TRUE, escaped |-> TRUE]
  ELSE [form |-> t.form, results |-> t.out.val, raised |-> FALSE, escaped |-> FALSE]

\* search_boolean: [form, results, raised (an exception occurred inside),
\* escaped (an exception reached the caller)]
search_boolean(q0, m) ==
  LET t == search_try(q0, m) IN
  IF t.out.exc
  THEN [form |-> t.form, results |-> <<>>, raised |-> TRUE, escaped |-> FALSE]
  ELSE [form |-> t.form, results |-> t.out.val, raised |-> FALSE, escaped |-> FALSE]


(***************************************************************************)
(* Query verification.  A report is [logic_correct, issues,                *)
(* document_analysis, exc]; exc says that an exception left                *)
(* verify_boolean_logic, which has no handler of its own.                  *)
(***************************************************************************)
NewReport == [logic_correct |-> TRUE, issues |-> <<>>, document_analysis |-> <<>>,
              exc |-> FALSE]

Failed(v) == [v EXCEPT !.exc = TRUE]

Flag(v, issue) ==
  [v EXCEPT !.logic_correct = FALSE, !.issues = Append(@, issue)]

\* the loop of _verify_and_logic over terms
RECURSIVE VerifyAndLoop(_, _, _, _)
VerifyAndLoop(terms, i, doc_id, v) ==
  IF i > Len(terms) THEN [v EXCEPT !.document_analysis = Append(@, doc_id)]
  ELSE LET docs == get_documents_for_term(terms[i]) IN
       IF docs.exc THEN Failed(v)
       ELSE IF doc_id \in docs.val THEN VerifyAndLoop(terms, i + 1, doc_id, v)
       ELSE VerifyAndLoop(terms, i + 1, doc_id,
              Flag(v, [kind |-> "missing required term", doc_id |-> doc_id,
                       term |-> terms[i]]))

\* _verify_and_logic
verify_and_logic(q, doc_id, v) ==
  VerifyAndLoop(StripAll(Split(q, AND_SEP)), 1, doc_id, v)

\* the loop of _verify_or_logic over terms: found_any, or exc
RECURSIVE VerifyOrLoop(_, _, _, _)
VerifyOrLoop(terms, i, doc_id, found_any) ==
  IF i > Len(terms) THEN Ok(found_any)
  ELSE LET docs == get_documents_for_term(terms[i]) IN
       IF docs.exc THEN Raise
       ELSE VerifyOrLoop(terms, i + 1, doc_id, found_any \/ doc_id \in docs.val)

\* _verify_or_logic
verify_or_logic(q, doc_id, v) ==
  LET terms == StripAll(Split(q, OR_SEP))
      found == VerifyOrLoop(terms, 1, doc_id, FALSE)
  IN  IF found.exc THEN Failed(v)
      ELSE LET w == IF found.val THEN v
                    ELSE Flag(v, [kind |-> "no required terms", doc_id |-> doc_id,
                                  term |-> terms])
           IN  [w EXCEPT !.document_analysis = Append(@, doc_id)]

\* the excluded-term check that ends _verify_and_not_logic and _verify_not_logic
VerifyExcluded(negative_term, doc_id, v) ==
  IF v.exc THEN v
  ELSE LET docs == get_documents_for_term(negative_term) IN
       IF docs.exc THEN Failed(v)
       ELSE IF doc_id \in docs.val
       THEN Flag(v, [kind |-> "contains excluded term", doc_id |-> doc_id,
                     term |-> negative_term])
       ELSE v

\* the required-term check of _verify_and_not_logic and _verify_not_logic
VerifyRequired(positive_term, doc_id, v) ==
  LET docs == get_documents_for_term(positive_term) IN
  IF docs.exc THEN Failed(v)
  ELSE IF doc_id \notin docs.val
  THEN Flag(v, [kind |-> "missing required term", doc_id |-> doc_id,
                term |-> positive_term])
  ELSE v

\* the loop of _verify_and_not_logic over positive_terms: missing_positive, or exc
RECURSIVE MissingPositive(_, _, _, _)
MissingPositive(terms, i, doc_id, missing) ==
  IF i > Len(terms) THEN Ok(missing)
  ELSE LET docs == get_documents_for_term(terms[i]) IN
       IF docs.exc THEN [exc |-> TRUE, val |-> <<>>]
       ELSE MissingPositive(terms, i + 1, doc_id,
              IF doc_id \notin docs.val THEN Append(missing, terms[i]) ELSE missing)

\* _verify_and_not_logic
verify_and_not_logic(q, doc_id, v) ==
  LET parts == Split(q, AND_NOT_SEP) IN
  IF Len(parts) # 2 THEN v
  ELSE LET positive_part == Strip(parts[1])
           negative_term == Strip(parts[2])
           checked ==
             IF Contains(AND_SEP, positive_part)
             THEN LET m == MissingPositive(StripAll(Split(positive_part, AND_SEP)),
                                           1, doc_id, <<>>)
                  IN  IF m.exc THEN Failed(v)
                      ELSE IF m.val # <<>>
                      THEN Flag(v, [kind |-> "missing required terms",
                                    doc_id |-> doc_id, term |-> m.val])
                      ELSE v
             ELSE VerifyRequired(positive_part, doc_id, v)
       IN  VerifyExcluded(negative_term, doc_id, checked)

\* _verify_not_logic
verify_not_logic(q, doc_id, v) ==
  LET parts == Split(q, NOT_SEP) IN
  IF Len(parts) # 2 THEN v
  ELSE LET w == VerifyRequired(Strip(parts[1]), doc_id, v)
       IN  VerifyExcluded(Strip(parts[2]), doc_id, w)

\* the body of the loop of verify_boolean_logic
VerifyDoc(query_lower, doc_id, v) ==
  IF Contains(AND_NOT_SEP, query_lower) THEN verify_and_not_logic(query_lower, doc_id, v)
  ELSE IF Contains(AND_SEP, query_lower) THEN verify_and_logic(query_lower, doc_id, v)
  ELSE IF Contains(OR_SEP, query_lower) THEN verify_or_logic(query_lower, doc_id, v)
  ELSE IF Contains(NOT_SEP, query_lower) THEN verify_not_logic(query_lower, doc_id, v)
  ELSE v

RECURSIVE VerifyLoop(_, _, _, _)
VerifyLoop(query_lower, res, i, v) ==
  IF i > Len(res) \/ v.exc THEN v
  ELSE VerifyLoop(query_lower, res, i + 1, VerifyDoc(query_lower, res[i], v))

\* verify_boolean_logic
verify_boolean_logic(q0, res) == VerifyLoop(to_lowercase(q0), res, 1, NewReport)

\* the read of the store with setdefault in place of get
store_after_setdefault(store, doc_id) ==
  IF doc_id \in DOMAIN store THEN store ELSE Put(store, doc_id, <<>>)

\* the store after self.documents.get(doc_id, ""): get returns the default
\* for an unknown id and adds no key
store_after_get(store, doc_id) == store

\* the store after the loop of verify_boolean_logic
RECURSIVE StoreAfterVerifyLoop(_, _, _, _, _)
StoreAfterVerifyLoop(query_lower, res, i, v, store) ==
  IF i > Len(res) \/ v.exc THEN store
  ELSE StoreAfterVerifyLoop(query_lower, res, i + 1, VerifyDoc(query_lower, res[i], v),
                            store_after_get(store, res[i]))

documents_after_verify(q0, res) ==
  StoreAfterVerifyLoop(to_lowercase(q0), res, 1, NewReport, documents)

\* explain_boolean_query: the lines of the explanation
explain_boolean_query(q0, res) ==
  IF res = <<>> THEN << [text |-> "No documents match the query.", args |-> <<>>] >>
  ELSE LET query_lower == to_lowercase(q0) IN
    IF Contains(AND_NOT_SEP, query_lower)
    THEN LET parts == Split(query_lower, AND_NOT_SEP) IN
         << [text |-> "Query requires documents with positive but NOT negative",
             args |-> <<Strip(parts[1]), Strip(parts[2])>>] >>
    ELSE IF Contains(AND_SEP, query_lower)
    THEN << [text |-> "Query requires ALL terms",
             args |-> StripAll(Split(query_lower, AND_SEP))],
            [text |-> "Documents must contain every specified term.", args |-> <<>>] >>
    ELSE IF Contains(OR_SEP, query_lower)
    THEN << [text |-> "Query requires ANY of the terms",
             args |-> StripAll(Split(query_lower, OR_SEP))],
            [text |-> "Documents need to contain at least one of the specified terms.",
             args |-> <<>>] >>
    ELSE IF Contains(NOT_SEP, query_lower)
    THEN LET parts == Split(query_lower, NOT_SEP) IN
         << [text |-> "Query requires documents with positive but NOT negative",
             args |-> <<Strip(parts[1]), Strip(parts[2])>>] >>
    ELSE <<>>


(***************************************************************************)
(* Bounded inputs                                                          *)
(***************************************************************************)

\* number of term groups in a generated query
MaxGroups == 3

\* largest explicit max_results argument (the default is tried as well)
MaxResultsArg == 1

\* def search_boolean(self, query, max_results: int = 100)
DefaultMaxResults == 100

\* the collection of the test scenario, as the indexer stores it: contents are
\* the preprocessed text, the vector is the set of its terms
Scenario ==
  << [id |-> "d1", status |-> "ok", contents |-> <<"quick", SP, "brown", SP, "dog">>,
      vector |-> {"quick", "brown", "dog"}],
     [id |-> "d2", status |-> "ok", contents |-> <<"lazi", SP, "cat">>,
      vector |-> {"lazi", "cat"}],
     [id |-> "d3", status |-> "ok", contents |-> <<"dog", SP, "cat", SP, "play">>,
      vector |-> {"dog", "cat", "play"}] >>

\* another collection: ids that sort differently as strings than as numbers,
\* and a document with no terms
Other ==
  << [id |-> "d2", status |-> "ok", contents |-> <<"dog">>, vector |-> {"dog"}],
     [id |-> "d10", status |-> "ok", contents |-> <<"dog", SP, "cat">>,
      vector |-> {"dog", "cat"}],
     [id |-> "d1", status |-> "ok", contents |-> <<>>, vector |-> {}] >>

Engines == {Scenario, Other}

Groups == {<<"dog">>, <<"Cats!">>, <<"the">>, <<>>}

Seps == {<<SP, "AND", SP>>, <<SP, "or", SP>>, <<SP, "not", SP>>,
         <<SP, "and", SP, "NOT", SP>>, <<SP>>}

\* the queries of the test scenario
ScenarioQueries ==
  { <<"dog", SP, "AND", SP, "cat">>, <<"dog", SP, "OR", SP, "cat">>,
    <<"dog", SP, "AND", SP, "NOT", SP, "cat">>, <<"bird">> }

RECURSIVE QueriesOf(_)
QueriesOf(n) ==
  IF n = 1 THEN Groups
  ELSE {q \o s \o g : q \in QueriesOf(n - 1), s \in Seps, g \in Groups}

Queries == UNION {QueriesOf(n) : n \in 1..MaxGroups} \cup ScenarioQueries

MaxResultsArgs == (0..MaxResultsArg) \cup {DefaultMaxResults}

TermGroups == Groups \cup {<<"dog", SP, "Cats!">>, <<"bird">>, <<"!">>}

(***************************************************************************)
(* The state machine                                                       *)
(***************************************************************************)

\* no DocumentIndexer.create_index call is under way
NoIngestion ==
  /\ jsonl_file = [found |-> FALSE, lines |-> <<>>]
  /\ created = [returned |-> "none", indexed |-> <<>>, documents_indexed |-> 0,
                closed |-> FALSE]

Idle ==
  /\ query = <<>>
  /\ max_results = DefaultMaxResults
  /\ form = "none"
  /\ results = <<>>
  /\ raised = FALSE
  /\ escaped = FALSE
  /\ term_out = Ok({})
  /\ verification = NewReport
  /\ explanation = <<>>

\* BooleanRetrieval.__init__: the index is built from the engine
Init ==
  /\ engine \in Engines
  /\ LET b == build_inverted_index(engine, 1, EmptyMap, EmptyMap) IN
       /\ inverted_index = b.inverted_index
       /\ documents = b.documents
  /\ pc = "ready"
  /\ Idle
  /\ NoIngestion

\* a call search_boolean(q, m)
SearchBoolean(q, m) ==
  /\ pc = "ready"
  /\ LET r == search_boolean(q, m) IN
       /\ form' = r.form
       /\ results' = r.results
       /\ raised' = r.raised
       /\ escaped' = r.escaped
  /\ query' = q
  /\ max_results' = m
  /\ pc' = "searched"
  /\ UNCHANGED <<engine, inverted_index, documents, term_out, verification,
                 explanation, jsonl_file, created>>

\* a call verify_boolean_logic(query, results) on the results of the search,
\* as run_test_queries makes it
VerifyBooleanLogic ==
  /\ pc = "searched"
  /\ ~escaped
  /\ verification' = verify_boolean_logic(query, results)
  /\ documents' = documents_after_verify(query, results)
  /\ pc' = "verified"
  /\ UNCHANGED <<engine, inverted_index, query, max_results, form,
                 results, raised, escaped, term_out, explanation, jsonl_file,
                 created>>

\* a call _get_documents_for_term(g)
GetDocumentsForTerm(g) ==
  /\ pc = "ready"
  /\ term_out' = get_documents_for_term(g)
  /\ query' = g
  /\ pc' = "term"
  /\ UNCHANGED <<engine, inverted_index, documents, max_results, form, results,
                 raised, escaped, verification, explanation, jsonl_file, created>>

\* the caller goes on to its next query
NextQuery ==
  /\ pc \in {"searched", "verified", "term", "checked", "explained"}
  /\ pc' = "ready"
  /\ query' = <<>>
  /\ max_results' = DefaultMaxResults
  /\ form' = "none"
  /\ results' = <<>>
  /\ raised' = FALSE
  /\ escaped' = FALSE
  /\ term_out' = Ok({})
  /\ verification' = NewReport
  /\ explanation' = <<>>
  /\ UNCHANGED <<engine, inverted_index, documents, jsonl_file, created>>

\* the caller's choice of what to call next
Search == pc = "ready" /\ \E q \in Queries, m \in MaxResultsArgs : SearchBoolean(q, m)

TermLookup == pc = "ready" /\ \E g \in TermGroups : GetDocumentsForTerm(g)

Next ==
  \/ Search
  \/ VerifyBooleanLogic
  \/ TermLookup
  \/ NextQuery

Spec == Init /\ [][Next]_vars


(***************************************************************************)
(* The semantics the specification gives to a query, written with the      *)
(* normaliser of the preprocessor (preprocess_manual).                     *)
(***************************************************************************)

\* terms_for(group): the union of the posting sets of the group's tokens
TermsFor(g) ==
  UNION {inverted_index[t] :
           t \in Range(preprocess_manual(Strip(g))) \cap DOMAIN inverted_index}

\* the query as the classifier sees it: trimmed and lowercased
Normal(q) == Strip(to_lowercase(Strip(q)))

InterAll(parts) ==
  {d \in DOMAIN documents : \A i \in DOMAIN parts : d \in TermsFor(parts[i])}

UnionAll(parts) == UNION {TermsFor(parts[i]) : i \in DOMAIN parts}

\* the separator made of the keywords kws occurs in q, whatever the case of
\* its letters: a space, then each keyword followed by a space
HasSep(q, kws) ==
  \E i \in 1..Len(q) :
    /\ q[i] = SP
    /\ i + 2 * Len(kws) <= Len(q)
    /\ \A k \in 1..Len(kws) :
         /\ LowerWord(q[i + 2 * k - 1]) = kws[k]
         /\ q[i + 2 * k] = SP

\* the operator form of a query by the priority order
\* " and not " > " and " > " or " > " not " > single term group
ExpectedForm(q) ==
  LET t == Strip(q) IN
  IF HasSep(t, <<"and", "not">>) THEN "and_not"
  ELSE IF HasSep(t, <<"and">>) THEN "and"
  ELSE IF HasSep(t, <<"or">>) THEN "or"
  ELSE IF HasSep(t, <<"not">>) THEN "not"
  ELSE "term"

\* left and right of the first " and not ", trimmed
AndNotLeft(q) == Strip(SubSeq(q, 1, Find(AND_NOT_SEP, q) - 1))

AndNotRight(q) ==
  Strip(SubSeq(q, Find(AND_NOT_SEP, q) + Len(AND_NOT_SEP), Len(q)))

AndResolved(left) ==
  IF Contains(AND_SEP, left) THEN InterAll(Split(left, AND_SEP)) ELSE TermsFor(left)

\* the full match set of a query
MatchSet(q) ==
  LET n == Normal(q) IN
  IF n = <<>> THEN {}
  ELSE IF Contains(AND_NOT_SEP, n)
  THEN AndResolved(AndNotLeft(n)) \ TermsFor(AndNotRight(n))
  ELSE IF Contains(AND_SEP, n) THEN InterAll(Split(n, AND_SEP))
  ELSE IF Contains(OR_SEP, n) THEN UnionAll(Split(n, OR_SEP))
  ELSE IF Contains(NOT_SEP, n)
  THEN LET parts == Split(n, NOT_SEP) IN
       IF Len(parts) = 2 THEN TermsFor(parts[1]) \ TermsFor(parts[2]) ELSE {}
  ELSE TermsFor(n)

Searched == pc = "searched"

(***************************************************************************)
(* Claims                                                                  *)
(***************************************************************************)

\* C1: every non-blank query is dispatched to exactly the operator form that
\* comes first in the order " and not " > " and " > " or " > " not " >
\* single term, and its upper-case and lower-case variants are dispatched
\* to the same form.
C1_Classification ==
  (Searched /\ Strip(query) # <<>>) =>
    /\ form = ExpectedForm(query)
    /\ search_boolean(ToUpper(query), max_results).form = form
    /\ search_boolean(to_lowercase(query), max_results).form = form

\* an upper-case AND query that also holds an " or " separator was searched
C1_Witness ==
  /\ Searched
  /\ form = "and"
  /\ Contains(<<SP, "AND", SP>>, query)
  /\ Contains(OR_SEP, query)

\* C2: a query with " and not " is split once at the first occurrence and
\* the result is AND-resolved(left) minus terms_for(right), also when more
\* " and not " separators follow.
C2_AndNotFirstSplit ==
  (Searched /\ Contains(AND_NOT_SEP, Normal(query))) =>
    results = SliceTo(Sorted(AndResolved(AndNotLeft(Normal(query)))
                               \ TermsFor(AndNotRight(Normal(query)))),
                      max_results)

\* C3: the result of an AND query is the intersection of terms_for over all
\* its parts.
C3_AndIntersection ==
  (/\ Searched
   /\ ~Contains(AND_NOT_SEP, Normal(query))
   /\ Contains(AND_SEP, Normal(query))) =>
    results = SliceTo(Sorted(InterAll(Split(Normal(query), AND_SEP))), max_results)

\* C4: the result of an OR query is the union of terms_for over all its parts.
C4_OrUnion ==
  (/\ Searched
   /\ ~Contains(AND_NOT_SEP, Normal(query))
   /\ ~Contains(AND_SEP, Normal(query))
   /\ Contains(OR_SEP, Normal(query))) =>
    results = SliceTo(Sorted(UnionAll(Split(Normal(query), OR_SEP))), max_results)

\* C5: the result of a NOT query with one " not " is terms_for(t1) minus
\* terms_for(t2); with more than one it is empty and nothing is raised.
C5_Not ==
  (/\ Searched
   /\ ~Contains(AND_SEP, Normal(query))
   /\ ~Contains(OR_SEP, Normal(query))
   /\ Contains(NOT_SEP, Normal(query))) =>
    LET parts == Split(Normal(query), NOT_SEP) IN
    /\ Len(parts) = 2 =>
         results = SliceTo(Sorted(TermsFor(parts[1]) \ TermsFor(parts[2])), max_results)
    /\ Len(parts) > 2 => (results = <<>> /\ ~raised)

\* C6: _get_documents_for_term returns the union of the posting sets of the
\* group's tokens that are keys of the index, and raises nothing.
C6_TermGroup ==
  pc = "term" => (~term_out.exc /\ term_out.val = TermsFor(query))

\* C7: for max_results >= 0 the returned list is ascending, free of
\* duplicates, at most max_results long, and is the first max_results
\* elements of the sorted full match set.
C7_SortedTruncated ==
  (Searched /\ max_results >= 0) =>
    /\ \A i, j \in DOMAIN results : i < j => Rank(results[i]) < Rank(results[j])
    /\ Len(results) <= max_results
    /\ results = SliceTo(Sorted(MatchSet(query)), max_results)

\* C8: search_boolean returns a list to its caller whatever the query, and
\* the list is empty whenever an exception occurred during the evaluation.
C8_NeverRaises ==
  Searched =>
    /\ ~escaped
    /\ DOMAIN results = 1..Len(results)
    /\ raised => results = <<>>

\* a search during which an exception occurred
C8_Witness == Searched /\ raised

ScenarioResult(q, expected) ==
  (Searched /\ engine = Scenario /\ query = q /\ max_results = DefaultMaxResults) =>
    results = expected

\* C9: on the collection d1, d2, d3 of the scenario the four queries return
\* ["d3"], ["d1","d2","d3"], ["d1"] and [].
C9_Scenario ==
  /\ ScenarioResult(<<"dog", SP, "AND", SP, "cat">>, <<"d3">>)
  /\ ScenarioResult(<<"dog", SP, "OR", SP, "cat">>, <<"d1", "d2", "d3">>)
  /\ ScenarioResult(<<"dog", SP, "AND", SP, "NOT", SP, "cat">>, <<"d1">>)
  /\ ScenarioResult(<<"bird">>, <<>>)

\* C10: the verification of a query against the results of its own search
\* completes with logic_correct true and no issue.
C10_VerifierConsistent ==
  pc = "verified" =>
    /\ ~verification.exc
    /\ verification.logic_correct
    /\ verification.issues = <<>>

\* an operator query was searched and then verified
C10_Witness == pc = "verified" /\ form \in {"and_not", "and", "or", "not"}


(***************************************************************************)
(* Verification of a results list that the caller supplies                 *)
(***************************************************************************)

\* the results lists a caller passes: the sorted lists of stored document ids
ResultLists == {Sorted(S) : S \in SUBSET DOMAIN documents}

\* a call verify_boolean_logic(q, res)
VerifyAny(q, res) ==
  /\ pc = "ready"
  /\ query' = q
  /\ results' = res
  /\ verification' = verify_boolean_logic(q, res)
  /\ documents' = documents_after_verify(q, res)
  /\ pc' = "checked"
  /\ UNCHANGED <<engine, inverted_index, max_results, form, raised,
                 escaped, term_out, explanation, jsonl_file, created>>

Verify == pc = "ready" /\ \E q \in Queries, res \in ResultLists : VerifyAny(q, res)

NextVerify ==
  \/ Verify
  \/ NextQuery

SpecVerify == Init /\ [][NextVerify]_vars

\* C11: when some document of the results list is not in the match set of
\* the query, verify_boolean_logic completes with logic_correct false and at
\* least one issue, for every operator form.
C11_VerifierSound ==
  (pc = "checked" /\ \E i \in DOMAIN results : results[i] \notin MatchSet(query)) =>
    /\ ~verification.exc
    /\ ~verification.logic_correct
    /\ verification.issues # <<>>


(***************************************************************************)
(* The build of the index at construction, over engines whose reads may    *)
(* fail                                                                    *)
(***************************************************************************)

\* number of documents in the engine
MaxDocs == 3

\* the documents an engine holds, by internal docid
DocTable ==
  << [id |-> "d1", contents |-> <<"quick", SP, "brown", SP, "dog">>,
      vector |-> {"quick", "brown", "dog"}],
     [id |-> "d2", contents |-> <<"lazi", SP, "cat">>, vector |-> {"lazi", "cat"}],
     [id |-> "d3", contents |-> <<"dog", SP, "cat", SP, "play">>,
      vector |-> {"dog", "cat", "play"}],
     [id |-> "d10", contents |-> <<"dog">>, vector |-> {"dog"}] >>

Statuses == {"ok", "nocontents", "novector", "vecraise", "none", "raise"}

EngineOf(st) ==
  [i \in DOMAIN st |-> [id |-> DocTable[i].id, status |-> st[i],
                        contents |-> DocTable[i].contents,
                        vector |-> DocTable[i].vector]]

BuildEngines ==
  {EngineOf(st) : st \in UNION {[1..n -> Statuses] : n \in 0..Min(MaxDocs, Len(DocTable))}}

\* BooleanRetrieval.__init__ before build_inverted_index
InitBuild ==
  /\ engine \in BuildEngines
  /\ inverted_index = EmptyMap
  /\ documents = EmptyMap
  /\ pc = "new"
  /\ Idle
  /\ NoIngestion

\* the call build_inverted_index() that ends __init__
Build ==
  /\ pc = "new"
  /\ LET b == build_inverted_index(engine, 1, inverted_index, documents) IN
       /\ inverted_index' = b.inverted_index
       /\ documents' = b.documents
  /\ pc' = "ready"
  /\ UNCHANGED <<engine, query, max_results, form, results, raised, escaped,
                 term_out, verification, explanation, jsonl_file, created>>

NextBuild == Build

SpecBuild == InitBuild /\ [][NextBuild]_vars

\* the term set of a document that the reader reports to the build: nothing
\* when the read of the document or of its vector fails
ReportedTerms(doc) ==
  IF doc.status \in {"ok", "nocontents"} THEN doc.vector ELSE {}

CollectionIds == {engine[i].id : i \in DOMAIN engine}

AllTerms == DOMAIN inverted_index \cup UNION {engine[i].vector : i \in DOMAIN engine}

\* C12: after the build, D is in inverted_index[T] exactly when T is in the
\* term set the reader reports for D; no term maps to the empty set and
\* every posting holds ids of the collection only.
C12_IndexInvariant ==
  pc = "ready" =>
    /\ \A i \in DOMAIN engine : \A T \in AllTerms :
         (T \in DOMAIN inverted_index /\ engine[i].id \in inverted_index[T])
           <=> T \in ReportedTerms(engine[i])
    /\ \A T \in DOMAIN inverted_index :
         inverted_index[T] # {} /\ inverted_index[T] \subseteq CollectionIds

\* an index was built in which a term has two documents
C12_Witness ==
  /\ pc = "ready"
  /\ "dog" \in DOMAIN inverted_index
  /\ Cardinality(inverted_index["dog"]) >= 2

InNoPosting(id) == \A T \in DOMAIN inverted_index : id \notin inverted_index[T]

Indexed(doc) ==
  /\ doc.id \in DOMAIN documents
  /\ documents[doc.id] = doc.contents
  /\ \A T \in doc.vector : T \in DOMAIN inverted_index /\ doc.id \in inverted_index[T]

\* C17 as stated: a document whose read returns nothing or raises is in the
\* document store with empty content and in no posting, and the documents
\* that can be read are indexed all the same.
C17_FailedReadStored ==
  pc = "ready" =>
    \A i \in DOMAIN engine :
      /\ engine[i].status \in {"none", "raise"} =>
           /\ engine[i].id \in DOMAIN documents
           /\ documents[engine[i].id] = <<>>
           /\ InNoPosting(engine[i].id)
      /\ engine[i].status = "ok" => Indexed(engine[i])

\* C17, amended: a document whose read returns nothing is in the document
\* store with empty content; one whose read raises is not in the store;
\* neither is in any posting, and the documents that can be read are
\* indexed all the same.
C17_FailedReadAmended ==
  pc = "ready" =>
    \A i \in DOMAIN engine :
      /\ engine[i].status = "none" =>
           /\ engine[i].id \in DOMAIN documents
           /\ documents[engine[i].id] = <<>>
           /\ InNoPosting(engine[i].id)
      /\ engine[i].status = "raise" =>
           /\ engine[i].id \notin DOMAIN documents
           /\ InNoPosting(engine[i].id)
      /\ engine[i].status = "ok" => Indexed(engine[i])

\* a build in which a read raised, a read returned nothing, and a later
\* document was read
C17_Witness ==
  /\ pc = "ready"
  /\ \E i, j, k \in DOMAIN engine :
       /\ i < k /\ j < k
       /\ engine[i].status = "raise"
       /\ engine[j].status = "none"
       /\ engine[k].status = "ok"


(***************************************************************************)
(* Claims about the algebra of the operators                               *)
(***************************************************************************)

\* C13: with exactly one " and not ", the result is the AND-resolved left
\* side (the intersection of its parts when it holds " and ", its term group
\* otherwise) minus terms_for(right).
C13_AndAndNot ==
  (Searched /\ Len(Split(Normal(query), AND_NOT_SEP)) = 2) =>
    results = SliceTo(Sorted(AndResolved(AndNotLeft(Normal(query)))
                               \ TermsFor(AndNotRight(Normal(query)))),
                      max_results)

\* the query reads "x and not x"
IsXAndNotX(q) ==
  /\ Contains(AND_NOT_SEP, Normal(q))
  /\ AndNotLeft(Normal(q)) = AndNotRight(Normal(q))

\* C14: search_boolean("x AND NOT x") returns the empty list.
C14_XAndNotX == (Searched /\ IsXAndNotX(query)) => results = <<>>

\* "x and not x" was searched for an x that has documents
C14_Witness ==
  /\ Searched
  /\ IsXAndNotX(query)
  /\ TermsFor(AndNotLeft(Normal(query))) # {}

Orders(n) ==
  {f \in [1..n -> 1..n] : \A i, j \in 1..n : f[i] = f[j] => i = j}

RECURSIVE Join(_, _)
Join(parts, sep) ==
  IF Len(parts) = 1 THEN parts[1]
  ELSE parts[1] \o sep \o Join(Tail(parts), sep)

\* the AND query whose parts are those of q in the order f
Permuted(q, f) ==
  LET parts == Split(Normal(q), AND_SEP) IN
  Join([i \in DOMAIN parts |-> parts[f[i]]], AND_SEP)

\* C15: an AND query returns the same list whatever the order of its parts.
C15_AndCommutes ==
  (Searched /\ form = "and") =>
    \A f \in Orders(Len(Split(Normal(query), AND_SEP))) :
      search_boolean(Permuted(query, f), max_results).results = results

\* an AND query was searched whose first two parts have different documents
C15_Witness ==
  /\ Searched
  /\ form = "and"
  /\ LET parts == Split(Normal(query), AND_SEP) IN
       TermsFor(parts[1]) # TermsFor(parts[2])


(***************************************************************************)
(* Ingestion: DocumentIndexer.create_index reads a JSONL file line by line *)
(* A line is blank, is not JSON ("badjson"), is a JSON object without 'id' *)
(* ("noid") or without 'contents' ("nocontents"), is a JSON number, true,  *)
(* false or null ("nonobject", on which the test 'id' not in doc_dict      *)
(* raises TypeError), or is a record with both fields ("ok").              *)
(***************************************************************************)

\* number of lines of the file
MaxLines == 3

Malformed == {"badjson", "noid", "nocontents"}

IngestLines ==
  {[kind |-> k, id |-> "-"] : k \in Malformed \cup {"blank", "nonobject"}}
    \cup {[kind |-> "ok", id |-> d] : d \in {"d1", "d2"}}

Files ==
  {[found |-> TRUE, lines |-> l] : l \in UNION {[1..n -> IngestLines] : n \in 0..MaxLines}}
    \cup {[found |-> FALSE, lines |-> <<>>]}

\* the state of the loop: the records handed to add_doc_dict, the counter,
\* and whether an exception left the loop
NewIngest == [indexed |-> <<>>, documents_indexed |-> 0, exc |-> FALSE]

\* the ingestion with a malformed line ending the loop
RECURSIVE IngestLoop_aborts(_, _, _)
IngestLoop_aborts(lines, line_num, acc) ==
  IF line_num > Len(lines) \/ acc.exc THEN acc
  ELSE IF lines[line_num].kind = "blank" THEN IngestLoop_aborts(lines, line_num + 1, acc)
  ELSE IF lines[line_num].kind = "ok"
  THEN IngestLoop_aborts(lines, line_num + 1,
         [acc EXCEPT !.indexed = Append(@, lines[line_num].id),
                     !.documents_indexed = @ + 1])
  ELSE [acc EXCEPT !.exc = TRUE]

\* the for loop over the lines of the file
RECURSIVE IngestLoop(_, _, _)
IngestLoop(lines, line_num, acc) ==
  IF line_num > Len(lines) \/ acc.exc THEN acc
  ELSE IF lines[line_num].kind = "blank" THEN IngestLoop(lines, line_num + 1, acc)
  ELSE IF lines[line_num].kind = "badjson" THEN IngestLoop(lines, line_num + 1, acc)
  ELSE IF lines[line_num].kind = "nonobject" THEN [acc EXCEPT !.exc = TRUE]
  ELSE IF lines[line_num].kind \in {"noid", "nocontents"}
  THEN IngestLoop(lines, line_num + 1, acc)
  ELSE IngestLoop(lines, line_num + 1,
         [acc EXCEPT !.indexed = Append(@, lines[line_num].id),
                     !.documents_indexed = @ + 1])

\* what create_index leaves and returns
Ingested(file, acc) ==
  IF ~file.found \/ acc.exc
  THEN [returned |-> "False", indexed |-> acc.indexed,
        documents_indexed |-> acc.documents_indexed, closed |-> FALSE]
  ELSE [returned |-> "True", indexed |-> acc.indexed,
        documents_indexed |-> acc.documents_indexed, closed |-> TRUE]

create_index_aborts(file) == Ingested(file, IngestLoop_aborts(file.lines, 1, NewIngest))

\* create_index
create_index(file) == Ingested(file, IngestLoop(file.lines, 1, NewIngest))

\* a DocumentIndexer and the file it is given; no retrieval system exists yet
InitIngest ==
  /\ jsonl_file \in Files
  /\ created = [returned |-> "none", indexed |-> <<>>, documents_indexed |-> 0,
                closed |-> FALSE]
  /\ engine = <<>>
  /\ inverted_index = EmptyMap
  /\ documents = EmptyMap
  /\ pc = "file"
  /\ Idle

\* a call create_index(jsonl_file)
CreateIndex ==
  /\ pc = "file"
  /\ created' = create_index(jsonl_file)
  /\ pc' = "ingested"
  /\ UNCHANGED <<engine, inverted_index, documents, query, max_results, form,
                 results, raised, escaped, term_out, verification, explanation,
                 jsonl_file>>

NextIngest == CreateIndex

SpecIngest == InitIngest /\ [][NextIngest]_vars

\* the ids of the records with both fields, in file order
RECURSIVE WellFormed(_)
WellFormed(lines) ==
  IF lines = <<>> THEN <<>>
  ELSE IF Head(lines).kind = "ok" THEN <<Head(lines).id>> \o WellFormed(Tail(lines))
  ELSE WellFormed(Tail(lines))

\* every line is blank, not JSON, or a JSON object
OnlyRecords(lines) == \A i \in DOMAIN lines : lines[i].kind # "nonobject"

\* C16: on a file whose lines are records (with or without 'id' and
\* 'contents'), blank lines or lines that are not JSON, create_index hands
\* exactly the records with both fields to the index, in file order, counts
\* exactly those, closes the index and returns True: a line without 'id' or
\* 'contents' or that is not JSON is skipped and the lines after it are read.
C16_MalformedSkipped ==
  (pc = "ingested" /\ jsonl_file.found /\ OnlyRecords(jsonl_file.lines)) =>
    /\ created.returned = "True"
    /\ created.closed
    /\ created.indexed = WellFormed(jsonl_file.lines)
    /\ created.documents_indexed = Len(WellFormed(jsonl_file.lines))

\* a malformed line between two records that are both indexed
C16_Witness ==
  /\ pc = "ingested"
  /\ Len(jsonl_file.lines) = MaxLines
  /\ jsonl_file.lines[1].kind = "ok"
  /\ jsonl_file.lines[2].kind \in Malformed
  /\ jsonl_file.lines[MaxLines].kind = "ok"
  /\ created.returned = "True"
  /\ Len(created.indexed) = 2


(***************************************************************************)
(* Calls in any order on a built retrieval system                          *)
(***************************************************************************)

\* number of term groups in a query of the mixed calls
MaxFrameGroups == 2

FrameQueries == UNION {QueriesOf(n) : n \in 1..MaxFrameGroups} \cup ScenarioQueries

\* the results lists a caller passes, with ids the store does not hold
FrameResults == ResultLists \cup {<<"d9">>, <<"d1", "d9">>}

\* a call explain_boolean_query(q, res)
ExplainBooleanQuery(q, res) ==
  /\ pc = "ready"
  /\ query' = q
  /\ results' = res
  /\ explanation' = explain_boolean_query(q, res)
  /\ pc' = "explained"
  /\ UNCHANGED <<engine, inverted_index, documents, max_results, form, raised,
                 escaped, term_out, verification, jsonl_file, created>>

FrameSearch ==
  pc = "ready" /\ \E q \in FrameQueries, m \in MaxResultsArgs : SearchBoolean(q, m)

FrameVerify ==
  pc = "ready" /\ \E q \in FrameQueries, res \in FrameResults : VerifyAny(q, res)

FrameExplain ==
  pc = "ready" /\ \E q \in FrameQueries, res \in FrameResults : ExplainBooleanQuery(q, res)

NextFrame ==
  \/ FrameSearch
  \/ VerifyBooleanLogic
  \/ FrameVerify
  \/ FrameExplain
  \/ NextQuery

SpecFrame == Init /\ [][NextFrame]_vars

\* C18: no call of search_boolean, verify_boolean_logic or
\* explain_boolean_query on a built system changes the inverted index or the
\* document store: no key is added or removed and no posting set changes.
C18_ReadOnly ==
  [][inverted_index' = inverted_index /\ documents' = documents]_vars

\* after a verification that failed on a results list with an id the store
\* does not hold, the index and the store are as the build left them
C18_Witness ==
  /\ pc = "checked"
  /\ verification.exc
  /\ \E i \in DOMAIN results : results[i] \notin DOMAIN documents
  /\ LET b == build_inverted_index(engine, 1, EmptyMap, EmptyMap) IN
       /\ inverted_index = b.inverted_index
       /\ documents = b.documents

====
